---- MODULE Spec2Model ----
(***************************************************************************)
(* A model of rust-recipe-parser (src/src/main.rs): the two serde visitors *)
(* that decode bracketed pseudo-lists, the two graph-store operations and  *)
(* the driver loop of main.                                                *)
(*                                                                         *)
(* Text is a sequence of one-character strings.  A Rust Result is a record  *)
(* with a boolean field ok.                                                *)
(***************************************************************************)
EXTENDS Integers, Sequences, FiniteSets, Bags, TLC

VARIABLES
    raw,        \* decoders: the field text handed to visit_str
    elems,      \* decoders: the elements the text was written from (<<>> if arbitrary text)
    strings,    \* decoders: result of StringArrayVisitor::visit_str, or Pending
    floats,     \* decoders: result of FloatArrayVisitor::visit_str, or Pending
    pc,         \* position of the single thread of control
    file,       \* the rows of the input file
    row,        \* number of rows the driver has read
    recipe,     \* the Recipe of the current row / the argument of add_recipe_to_neo4j
    call,       \* recipe_id and ingredients of the current add_ingredients_to_recipe
    j,          \* index of the ingredient the for loop is at
    db,         \* committed content of the graph store
    tx,         \* working content of the open transaction, or NoTx
    open,       \* number of transactions started and neither committed nor discarded
    log,        \* the calls that returned Ok, in order
    err         \* the error the run ended with, or NoErr

vars == <<raw, elems, strings, floats, pc, file, row, recipe, call, j, db, tx, open, log, err>>

decodeVars == <<raw, elems, strings, floats>>
loadVars == <<pc, file, row, recipe, call, j, db, tx, open, log, err>>

Ok(v) == [ok |-> TRUE, val |-> v]
Err(m) == [ok |-> FALSE, msg |-> m]
Pending == [ok |-> FALSE, msg |-> "pending"]

(***************************************************************************)
(* Text primitives of the Rust standard library used by the visitors.      *)
(***************************************************************************)
Brackets == {"[", "]"}
Quotes == {"'", "\""}
Whitespace == {" ", "\t", "\n", "\r"}

SetMin(S) == CHOOSE x \in S : \A y \in S : x <= y
SetMax(S) == CHOOSE x \in S : \A y \in S : x >= y

\* str::trim_matches with one end only handled, then nothing more: strips at
\* most one matching character at each end.
trim_one(s, chars) ==
    LET a == IF Len(s) > 0 /\ s[1] \in chars THEN SubSeq(s, 2, Len(s)) ELSE s
    IN  IF Len(a) > 0 /\ a[Len(a)] \in chars THEN SubSeq(a, 1, Len(a) - 1) ELSE a

\* str::trim_matches(pred): removes every leading and every trailing
\* character that matches.
trim_matches(s, chars) ==
    LET keep == {i \in 1..Len(s) : s[i] \notin chars}
    IN  IF keep = {} THEN <<>> ELSE SubSeq(s, SetMin(keep), SetMax(keep))

\* str::trim(): removes leading and trailing whitespace.
trim(s) == trim_matches(s, Whitespace)

\* str::split(','): always yields at least one part.
RECURSIVE split(_)
split(s) ==
    LET commas == {i \in 1..Len(s) : s[i] = ","}
    IN  IF commas = {} THEN <<s>>
        ELSE LET i == SetMin(commas)
             IN  <<SubSeq(s, 1, i - 1)>> \o split(SubSeq(s, i + 1, Len(s)))

(***************************************************************************)
(* StringArrayVisitor::visit_str                                           *)
(***************************************************************************)
\* the part with its whitespace trimmed and nothing else done to it
string_of_part_keep_quotes(part) == trim(part)

\* line 47: part.trim().trim_matches(|c| c == '\'' || c == '"')
string_of_part(part) == trim_matches(trim(part), Quotes)

\* line 43 with at most one bracket stripped at each end
parts_of_strip_one(value) == split(trim_one(value, Brackets))

\* line 43: value.trim_matches(|c| c == '[' || c == ']').split(',')
parts_of(value) == split(trim_matches(value, Brackets))

StringArrayVisitor_visit_str(value) ==
    LET parts == parts_of(value)
    IN  Ok([k \in 1..Len(parts) |-> string_of_part(parts[k])])

(***************************************************************************)
(* str::parse::<f32> and str::parse::<i32>.  A decimal number is kept      *)
(* exactly, as mantissa m and number of fraction digits e with no trailing *)
(* zero (value m / 10^e), so "3" and "3.0" are the same number.  Exponent  *)
(* forms and inf/nan need letters and are outside the texts drawn here.    *)
(***************************************************************************)
Digits == {"0", "1", "2", "3", "4", "5", "6", "7", "8", "9"}
Signs == {"+", "-"}
I32Max == 2147483647
I32MaxDigits == 9

DigitVal(c) ==
    CASE c = "0" -> 0 [] c = "1" -> 1 [] c = "2" -> 2 [] c = "3" -> 3 [] c = "4" -> 4
      [] c = "5" -> 5 [] c = "6" -> 6 [] c = "7" -> 7 [] c = "8" -> 8 [] OTHER -> 9

RECURSIVE DigitsValue(_)
DigitsValue(ds) ==
    IF ds = <<>> THEN 0
    ELSE 10 * DigitsValue(SubSeq(ds, 1, Len(ds) - 1)) + DigitVal(ds[Len(ds)])

Unsigned(s) == IF Len(s) > 0 /\ s[1] \in Signs THEN Tail(s) ELSE s
Negative(s) == Len(s) > 0 /\ s[1] = "-"

parse_f32(s) ==
    LET body == Unsigned(s)
        dots == {i \in 1..Len(body) : body[i] = "."}
        valid == /\ \A i \in 1..Len(body) : body[i] \in Digits \cup {"."}
                 /\ Cardinality(dots) <= 1
                 /\ \E i \in 1..Len(body) : body[i] \in Digits
        d == IF dots = {} THEN Len(body) + 1 ELSE SetMin(dots)
        int == SubSeq(body, 1, d - 1)
        frac == SubSeq(body, d + 1, Len(body))
        nz == {i \in 1..Len(frac) : frac[i] # "0"}
        fr == IF nz = {} THEN <<>> ELSE SubSeq(frac, 1, SetMax(nz))
        m == DigitsValue(int \o fr)
    IN  IF valid THEN Ok([m |-> IF Negative(s) THEN 0 - m ELSE m, e |-> Len(fr)])
        ELSE Err("invalid float literal")

\* The csv reader hands an integer field to str::parse::<i32> (a 0x prefix,
\* which it reads as hexadecimal, is in no text drawn here).
\* i32: at most ten significant digits, and no more than I32Max (one more
\* when negative); the comparison is made on the digits so that no value
\* wider than 32 bits is ever computed.
parse_i32(s) ==
    LET body == Unsigned(s)
        nz == {i \in 1..Len(body) : body[i] # "0"}
        sig == IF nz = {} THEN <<>> ELSE SubSeq(body, SetMin(nz), Len(body))
        hi == DigitsValue(SubSeq(sig, 1, Len(sig) - 1))
        lo == DigitVal(sig[Len(sig)])
        fits == \/ Len(sig) <= I32MaxDigits
                \/ /\ Len(sig) = I32MaxDigits + 1
                   /\ \/ hi < I32Max \div 10
                      \/ /\ hi = I32Max \div 10
                         /\ lo <= (I32Max % 10) + (IF Negative(s) THEN 1 ELSE 0)
        valid == /\ Len(body) > 0
                 /\ \A i \in 1..Len(body) : body[i] \in Digits
                 /\ fits
    IN  IF valid THEN Ok(IF Negative(s) THEN 0 - DigitsValue(sig) ELSE DigitsValue(sig))
        ELSE Err("invalid digit found in string")

(***************************************************************************)
(* FloatArrayVisitor::visit_str                                            *)
(***************************************************************************)
\* the loop with a part that does not parse skipped instead of returned
RECURSIVE floats_of_parts_skip_bad(_, _)
floats_of_parts_skip_bad(parts, acc) ==
    IF parts = <<>> THEN Ok(acc)
    ELSE LET num == parse_f32(trim(Head(parts)))
         IN  IF num.ok THEN floats_of_parts_skip_bad(Tail(parts), Append(acc, num.val))
             ELSE floats_of_parts_skip_bad(Tail(parts), acc)

\* lines 78-85: the for loop over the parts, pushing each parsed number and
\* returning the error at the first part that does not parse
RECURSIVE floats_of_parts(_, _)
floats_of_parts(parts, acc) ==
    IF parts = <<>> THEN Ok(acc)
    ELSE LET num == parse_f32(trim(Head(parts)))
         IN  IF num.ok THEN floats_of_parts(Tail(parts), Append(acc, num.val))
             ELSE Err("failed to parse float")

FloatArrayVisitor_visit_str(value) ==
    floats_of_parts(split(trim_matches(value, Brackets)), <<>>)

(***************************************************************************)
(* The graph store and the values the loader passes around.                *)
(***************************************************************************)
EmptyDb == [recipes |-> <<>>, ingredients |-> <<>>, edges |-> <<>>]
NoTx == [none |-> TRUE]
NoRecipe == [none |-> TRUE]
NoCall == [recipe_id |-> 0, ingredients |-> <<>>]
NoErr == [kind |-> "none", at |-> "none"]

LoaderIdle ==
    /\ pc = "idle" /\ file = <<>> /\ row = 0 /\ recipe = NoRecipe /\ call = NoCall
    /\ j = 0 /\ db = EmptyDb /\ tx = NoTx /\ open = 0 /\ log = <<>> /\ err = NoErr

(***************************************************************************)
(* Deserialising one csv row into a Recipe (struct Recipe, lines 9-21).    *)
(***************************************************************************)
DecodeRow(r) ==
    LET id == parse_i32(r.id)
        ingredients == StringArrayVisitor_visit_str(r.ingredients)
        minutes == parse_i32(r.minutes)
        steps == StringArrayVisitor_visit_str(r.steps)
        nutrition == FloatArrayVisitor_visit_str(r.nutrition)
    IN  IF ~id.ok \/ ~minutes.ok THEN Err("MalformedRow")
        ELSE IF ~nutrition.ok THEN Err("MalformedNumericField")
        ELSE Ok([id |-> id.val, name |-> r.name, description |-> r.description,
                 ingredients |-> ingredients.val, minutes |-> minutes.val,
                 steps |-> steps.val, nutrition |-> nutrition.val])

(***************************************************************************)
(* The three Cypher queries, on a store content s.  Nodes are kept in      *)
(* sequences (a node is its index), CONTAINS edges in a bag of             *)
(* <<recipe node, ingredient node>>, so duplicates can be told apart.      *)
(***************************************************************************)
RecipeNode(rec) ==
    [id |-> rec.id, name |-> rec.name, description |-> rec.description,
     minutes |-> rec.minutes, nutrition |-> rec.nutrition, steps |-> rec.steps]

RecipesWithId(s, id) == {r \in 1..Len(s.recipes) : s.recipes[r].id = id}
IngredientsNamed(s, name) == {i \in 1..Len(s.ingredients) : s.ingredients[i] = name}

\* the recipe query as an upsert by id
MergeRecipe(s, rec) ==
    IF RecipesWithId(s, rec.id) # {} THEN s
    ELSE [s EXCEPT !.recipes = Append(@, RecipeNode(rec))]

\* line 117: CREATE (r:Recipe {...}) RETURN r
CreateRecipe(s, rec) == [s EXCEPT !.recipes = Append(@, RecipeNode(rec))]

\* the ingredient query as an unconditional create
CreateIngredient(s, name) == [s EXCEPT !.ingredients = Append(@, name)]

\* line 98: MERGE (i:Ingredient {name: $name})
MergeIngredient(s, name) ==
    IF IngredientsNamed(s, name) # {} THEN s
    ELSE [s EXCEPT !.ingredients = Append(@, name)]

\* the relationship query with only the first matched recipe node bound
MergeContainsFirstRecipe(s, recipe_id, ingredient_name) ==
    LET rs == RecipesWithId(s, recipe_id)
        matched == IF rs = {} THEN {}
                   ELSE {SetMin(rs)} \X IngredientsNamed(s, ingredient_name)
    IN  [s EXCEPT !.edges = @ (+) SetToBag({p \in matched : ~BagIn(p, @)})]

\* line 103: MATCH (r:Recipe {id: ..}), (i:Ingredient {name: ..})
\*           MERGE (r)-[:CONTAINS]->(i)
\* one merge per matched (r, i) row; a row whose edge exists adds nothing
MergeContains(s, recipe_id, ingredient_name) ==
    LET matched == RecipesWithId(s, recipe_id) \X IngredientsNamed(s, ingredient_name)
    IN  [s EXCEPT !.edges = @ (+) SetToBag({p \in matched : ~BagIn(p, @)})]

(***************************************************************************)
(* The steps of the two operations and of main.  Each await on the store   *)
(* is one step; any of them may fail instead (StoreFail).  ret is where    *)
(* control goes when the operation returns Ok.                             *)
(***************************************************************************)
StoreCalls ==
    {"connect", "A_start_txn", "A_run", "A_commit",
     "B_start_txn", "B_merge_node", "B_merge_edge", "B_commit"}
APhase == {"A_start_txn", "A_run", "A_commit"}
BPhase == {"B_start_txn", "B_merge_node", "B_merge_edge", "B_commit"}
InTxn == {"A_run", "A_commit", "B_merge_node", "B_merge_edge", "B_commit"}

CallOfA(rec) == [op |-> "add_recipe_to_neo4j", id |-> rec.id, ingredients |-> <<>>]
CallOfB(c) ==
    [op |-> "add_ingredients_to_recipe", id |-> c.recipe_id, ingredients |-> c.ingredients]

\* add_recipe_to_neo4j, line 125: graph.start_txn()
add_recipe_start_txn ==
    /\ pc = "A_start_txn"
    /\ tx' = db
    /\ open' = open + 1
    /\ pc' = "A_run"
    /\ UNCHANGED <<decodeVars, file, row, recipe, call, j, db, log, err>>

\* line 126: tx.run(query)
add_recipe_run ==
    /\ pc = "A_run"
    /\ tx' = CreateRecipe(tx, recipe)
    /\ pc' = "A_commit"
    /\ UNCHANGED <<decodeVars, file, row, recipe, call, j, db, open, log, err>>

\* the function returning Ok with its transaction left open
add_recipe_return_uncommitted(ret) ==
    /\ pc = "A_commit"
    /\ log' = Append(log, CallOfA(recipe))
    /\ pc' = ret
    /\ UNCHANGED <<decodeVars, file, row, recipe, call, j, db, tx, open, err>>

\* lines 127-129: tx.commit(), Ok(())
add_recipe_commit(ret) ==
    /\ pc = "A_commit"
    /\ db' = tx
    /\ tx' = NoTx
    /\ open' = open - 1
    /\ log' = Append(log, CallOfA(recipe))
    /\ pc' = ret
    /\ UNCHANGED <<decodeVars, file, row, recipe, call, j, err>>

\* add_ingredients_to_recipe, lines 94-96: graph.start_txn(), loop entry
add_ingredients_start_txn ==
    /\ pc = "B_start_txn"
    /\ tx' = db
    /\ open' = open + 1
    /\ j' = 1
    /\ pc' = IF call.ingredients = <<>> THEN "B_commit" ELSE "B_merge_node"
    /\ UNCHANGED <<decodeVars, file, row, recipe, call, db, log, err>>

\* lines 98-100: the MERGE of the ingredient node
add_ingredients_merge_node ==
    /\ pc = "B_merge_node"
    /\ tx' = MergeIngredient(tx, call.ingredients[j])
    /\ pc' = "B_merge_edge"
    /\ UNCHANGED <<decodeVars, file, row, recipe, call, j, db, open, log, err>>

\* the relationship query run on the graph itself, committed on its own
add_ingredients_merge_edge_autocommit ==
    /\ pc = "B_merge_edge"
    /\ tx' = MergeContains(tx, call.recipe_id, call.ingredients[j])
    /\ db' = tx'
    /\ j' = j + 1
    /\ pc' = IF j = Len(call.ingredients) THEN "B_commit" ELSE "B_merge_node"
    /\ UNCHANGED <<decodeVars, file, row, recipe, call, open, log, err>>

\* lines 103-107: the MERGE of the CONTAINS edge, then the next ingredient
add_ingredients_merge_edge ==
    /\ pc = "B_merge_edge"
    /\ tx' = MergeContains(tx, call.recipe_id, call.ingredients[j])
    /\ j' = j + 1
    /\ pc' = IF j = Len(call.ingredients) THEN "B_commit" ELSE "B_merge_node"
    /\ UNCHANGED <<decodeVars, file, row, recipe, call, db, open, log, err>>

\* lines 109-110: tx.commit(), Ok(())
add_ingredients_commit(ret) ==
    /\ pc = "B_commit"
    /\ db' = tx
    /\ tx' = NoTx
    /\ open' = open - 1
    /\ log' = Append(log, CallOfB(call))
    /\ pc' = ret
    /\ UNCHANGED <<decodeVars, file, row, recipe, call, j, err>>

\* a failure that also undoes what earlier calls committed
StoreFailRollbackAll ==
    /\ pc \in StoreCalls
    /\ err' = [kind |-> IF pc = "connect" THEN "StoreConnectionError" ELSE "StoreError",
               at |-> pc]
    /\ db' = EmptyDb
    /\ tx' = NoTx
    /\ open' = 0
    /\ pc' = "aborted"
    /\ UNCHANGED <<decodeVars, file, row, recipe, call, j, log>>

\* any `.await?` on the store returning Err: the error propagates out of
\* main (lines 94, 100, 106, 109, 125-127, 134, 143, 148), the open
\* transaction is dropped uncommitted and the process ends.
StoreFail ==
    /\ pc \in StoreCalls
    /\ err' = [kind |-> IF pc = "connect" THEN "StoreConnectionError" ELSE "StoreError",
               at |-> pc]
    /\ tx' = NoTx
    /\ open' = 0
    /\ pc' = "aborted"
    /\ UNCHANGED <<decodeVars, file, row, recipe, call, j, db, log>>

\* main, line 134: Graph::new(..)
Connect ==
    /\ pc = "connect"
    /\ pc' = "open_file"
    /\ UNCHANGED <<decodeVars, file, row, recipe, call, j, db, tx, open, log, err>>

\* line 136: Reader::from_path(..)
OpenFile ==
    /\ pc = "open_file"
    /\ pc' = "read"
    /\ UNCHANGED <<decodeVars, file, row, recipe, call, j, db, tx, open, log, err>>

\* line 136: Reader::from_path(..) returning Err
OpenFileFail ==
    /\ pc = "open_file"
    /\ err' = [kind |-> "Io", at |-> pc]
    /\ pc' = "aborted"
    /\ UNCHANGED <<decodeVars, file, row, recipe, call, j, db, tx, open, log>>

\* the loop going on to the next row when a row does not decode
ReadRowSkipBad ==
    /\ pc = "read"
    /\ row < Len(file)
    /\ row' = row + 1
    /\ LET d == DecodeRow(file[row + 1])
       IN  IF d.ok THEN /\ recipe' = d.val
                        /\ pc' = "A_start_txn"
           ELSE UNCHANGED <<recipe, pc>>
    /\ UNCHANGED <<decodeVars, file, call, j, db, tx, open, log, err>>

\* lines 138-143: the next row is read and deserialised; `result?` returns
\* its error, otherwise add_recipe_to_neo4j is called with the recipe
ReadRow ==
    /\ pc = "read"
    /\ row < Len(file)
    /\ row' = row + 1
    /\ LET d == DecodeRow(file[row + 1])
       IN  IF d.ok THEN /\ recipe' = d.val
                        /\ pc' = "A_start_txn"
                        /\ UNCHANGED err
           ELSE /\ err' = [kind |-> d.msg, at |-> pc]
                /\ pc' = "aborted"
                /\ UNCHANGED recipe
    /\ UNCHANGED <<decodeVars, file, call, j, db, tx, open, log>>

\* lines 138, 151: no row is left, Ok(())
EndOfFile ==
    /\ pc = "read"
    /\ row = Len(file)
    /\ pc' = "done"
    /\ UNCHANGED <<decodeVars, file, row, recipe, call, j, db, tx, open, log, err>>

\* lines 145-148: add_ingredients_to_recipe(&graph, recipe.id, recipe.ingredients)
CallAddIngredients ==
    /\ pc = "call_B"
    /\ call' = [recipe_id |-> recipe.id, ingredients |-> recipe.ingredients]
    /\ pc' = "B_start_txn"
    /\ UNCHANGED <<decodeVars, file, row, recipe, j, db, tx, open, log, err>>

(***************************************************************************)
(* The decoders on their own: a field text is drawn, then decoded.         *)
(***************************************************************************)
MaxTextLen == 5
MaxElems == 2

StringAlphabet == {"[", "]", ",", " ", "'", "\"", "a"}
FloatAlphabet == {"[", "]", ",", " ", "1", "0", ".", "x"}

Texts(alphabet, n) == UNION {[1..k -> alphabet] : k \in 0..n}

\* Elements of a well-formed list text: none holds a comma or a quote.
Elems ==
    { <<>>, <<"a", " ", "a">>, <<"[", "a">>, <<"a", "]">>, <<" ", "a">> }
Pads == { <<>>, <<" ">> }
QuoteStyles == { <<>>, <<"'">>, <<"\"">> }
ElemForms == [e : Elems, q : QuoteStyles, l : Pads, r : Pads]

RenderElem(f) == f.l \o f.q \o f.e \o f.q \o f.r

RECURSIVE RenderElems(_)
RenderElems(fs) ==
    IF Len(fs) = 1 THEN RenderElem(fs[1])
    ELSE RenderElem(fs[1]) \o <<",">> \o RenderElems(Tail(fs))

\* the text [e1, e2, ..., en] of a non-empty sequence of element forms
Render(fs) == <<"[">> \o RenderElems(fs) \o <<"]">>

WellFormed == UNION {[1..n -> ElemForms] : n \in 1..MaxElems}

InitStrings ==
    /\ LoaderIdle
    /\ strings = Pending /\ floats = Pending
    /\ \/ elems = <<>> /\ raw \in Texts(StringAlphabet, MaxTextLen)
       \/ elems \in WellFormed /\ raw = Render(elems)

InitFloats ==
    /\ LoaderIdle
    /\ strings = Pending /\ floats = Pending
    /\ elems = <<>> /\ raw \in Texts(FloatAlphabet, MaxTextLen)

deserialize_string_array ==
    /\ strings = Pending
    /\ strings' = StringArrayVisitor_visit_str(raw)
    /\ UNCHANGED <<raw, elems, floats, loadVars>>

deserialize_float_array ==
    /\ floats = Pending
    /\ floats' = FloatArrayVisitor_visit_str(raw)
    /\ UNCHANGED <<raw, elems, strings, loadVars>>

NextStrings == deserialize_string_array
NextFloats == deserialize_float_array

SpecStrings == InitStrings /\ [][NextStrings]_vars
SpecFloats == InitFloats /\ [][NextFloats]_vars

(***************************************************************************)
(* main: one run of the driver over an input file, against an empty store. *)
(***************************************************************************)
MaxRows == 3

ListSP == <<"[", "'", "s", "'", ",", " ", "'", "p", "'", "]">>
ListS == <<"[", "'", "s", "'", "]">>
ListNone == <<"[", "]">>
Nutrition10 == <<"[", "1", ".", "0", ",", " ", "0", "]">>
NutritionBad == <<"[", "1", ".", "0", ",", " ", "x", "]">>

RawRows ==
    { [id |-> <<"1">>, name |-> "Tea", description |-> "hot", ingredients |-> ListSP,
       minutes |-> <<"5">>, steps |-> ListS, nutrition |-> Nutrition10],
      [id |-> <<"2">>, name |-> "Salt", description |-> "dry", ingredients |-> ListS,
       minutes |-> <<"1", "0">>, steps |-> ListSP, nutrition |-> Nutrition10],
      [id |-> <<"1">>, name |-> "Air", description |-> "", ingredients |-> ListNone,
       minutes |-> <<"0">>, steps |-> ListNone, nutrition |-> Nutrition10],
      [id |-> <<"x">>, name |-> "Bad id", description |-> "", ingredients |-> ListS,
       minutes |-> <<"5">>, steps |-> ListS, nutrition |-> Nutrition10],
      [id |-> <<"2">>, name |-> "Bad nutrition", description |-> "", ingredients |-> ListS,
       minutes |-> <<"5">>, steps |-> ListS, nutrition |-> NutritionBad] }

Files == UNION {[1..n -> RawRows] : n \in 0..MaxRows}

DecodersIdle ==
    raw = <<>> /\ elems = <<>> /\ strings = Pending /\ floats = Pending

Init ==
    /\ DecodersIdle
    /\ pc = "connect"
    /\ file \in Files
    /\ row = 0 /\ recipe = NoRecipe /\ call = NoCall /\ j = 0
    /\ db = EmptyDb /\ tx = NoTx /\ open = 0 /\ log = <<>> /\ err = NoErr

Next ==
    \/ Connect
    \/ OpenFile
    \/ OpenFileFail
    \/ ReadRow
    \/ EndOfFile
    \/ add_recipe_start_txn
    \/ add_recipe_run
    \/ add_recipe_commit("call_B")
    \/ CallAddIngredients
    \/ add_ingredients_start_txn
    \/ add_ingredients_merge_node
    \/ add_ingredients_merge_edge
    \/ add_ingredients_commit("read")
    \/ StoreFail

Spec == Init /\ [][Next]_vars

(***************************************************************************)
(* The two operations called directly, in any order and with any           *)
(* arguments, against a store that starts empty.                           *)
(***************************************************************************)
MaxCalls == 3

Salt == <<"s">>
Pepper == <<"p">>

Records ==
    { [id |-> 1, name |-> "Tea", description |-> "hot", ingredients |-> <<Salt, Pepper>>,
       minutes |-> 5, steps |-> <<Salt>>, nutrition |-> <<[m |-> 1, e |-> 0]>>],
      [id |-> 2, name |-> "Salt", description |-> "dry", ingredients |-> <<Salt>>,
       minutes |-> 10, steps |-> <<Salt>>, nutrition |-> <<[m |-> 1, e |-> 0]>>] }

RecipeIds == {1, 2}
IngredientLists ==
    { <<>>, <<Salt>>, <<Salt, Pepper>>, <<Pepper, Salt>>, <<Salt, Salt>> }

InitOps ==
    /\ DecodersIdle
    /\ LoaderIdle

Call_add_recipe_to_neo4j ==
    /\ pc = "idle"
    /\ Len(log) < MaxCalls
    /\ \E rec \in Records : recipe' = rec
    /\ pc' = "A_start_txn"
    /\ UNCHANGED <<decodeVars, file, row, call, j, db, tx, open, log, err>>

Call_add_ingredients_to_recipe ==
    /\ pc = "idle"
    /\ Len(log) < MaxCalls
    /\ \E id \in RecipeIds, l \in IngredientLists :
          call' = [recipe_id |-> id, ingredients |-> l]
    /\ pc' = "B_start_txn"
    /\ UNCHANGED <<decodeVars, file, row, recipe, j, db, tx, open, log, err>>

NextOps ==
    \/ Call_add_recipe_to_neo4j
    \/ Call_add_ingredients_to_recipe
    \/ add_recipe_start_txn
    \/ add_recipe_run
    \/ add_recipe_commit("idle")
    \/ add_ingredients_start_txn
    \/ add_ingredients_merge_node
    \/ add_ingredients_merge_edge
    \/ add_ingredients_commit("idle")
    \/ StoreFail

SpecOps == InitOps /\ [][NextOps]_vars

(***************************************************************************)
(* Properties.  The decoders are compared with a description of the text   *)
(* by positions: how many characters of a kind stand at each end, where    *)
(* the commas are, what lies between them.                                 *)
(***************************************************************************)
LeadCount(s, chars) ==
    Cardinality({n \in 1..Len(s) : \A i \in 1..n : s[i] \in chars})
TrailCount(s, chars) ==
    Cardinality({n \in 1..Len(s) : \A i \in (Len(s) - n + 1)..Len(s) : s[i] \in chars})

\* s without any of its leading and trailing characters of chars
Inner(s, chars) ==
    IF LeadCount(s, chars) = Len(s) THEN <<>>
    ELSE SubSeq(s, LeadCount(s, chars) + 1, Len(s) - TrailCount(s, chars))

\* s without one leading and one trailing character of chars, where present
OneOff(s, chars) ==
    LET a == IF Len(s) >= 1 /\ s[1] \in chars THEN 1 ELSE 0
        b == IF Len(s) - a >= 1 /\ s[Len(s)] \in chars THEN 1 ELSE 0
    IN  SubSeq(s, a + 1, Len(s) - b)

CommaPositions(s) == {i \in 1..Len(s) : s[i] = ","}
NumParts(s) == Cardinality(CommaPositions(s)) + 1
\* position of the k-th comma; 0 before the first part, Len(s)+1 after the last
CommaAt(s, k) ==
    IF k = 0 THEN 0
    ELSE IF k = NumParts(s) THEN Len(s) + 1
    ELSE CHOOSE p \in CommaPositions(s) :
            Cardinality({q \in CommaPositions(s) : q < p}) = k - 1
PartAt(s, k) == SubSeq(s, CommaAt(s, k - 1) + 1, CommaAt(s, k) - 1)

\* the strings of a field when Strip is what removes brackets and quotes
StringsOf(value, Strip(_, _)) ==
    LET body == Strip(value, Brackets)
    IN  [k \in 1..NumParts(body) |-> Strip(Inner(PartAt(body, k), Whitespace), Quotes)]

Unquoted(f) == f.q = <<>>
StartsWith(e, chars) == Len(e) > 0 /\ e[1] \in chars
EndsWith(e, chars) == Len(e) > 0 /\ e[Len(e)] \in chars
\* no comma, no quote; an element written without quotes has no whitespace
\* of its own at its ends (it could not be told from the surrounding one)
SimpleElem(f) ==
    /\ \A i \in 1..Len(f.e) : f.e[i] \notin Quotes \cup {","}
    /\ Unquoted(f) => ~StartsWith(f.e, Whitespace) /\ ~EndsWith(f.e, Whitespace)
ElementsOf(fs) == [k \in 1..Len(fs) |-> fs[k].e]
\* the first element stands bare right after the opening bracket and begins
\* with a bracket, or the last right before the closing one and ends with one
BareBracketAtEnd(fs) ==
    \/ Unquoted(fs[1]) /\ fs[1].l = <<>> /\ StartsWith(fs[1].e, Brackets)
    \/ Unquoted(fs[Len(fs)]) /\ fs[Len(fs)].r = <<>> /\ EndsWith(fs[Len(fs)].e, Brackets)

\* C7 as stated: every well-formed list text of elements without comma and
\* quote decodes to exactly its elements.
C7_AllSimpleListsDecode ==
    (elems # <<>> /\ strings # Pending /\ \A k \in 1..Len(elems) : SimpleElem(elems[k]))
        => strings = Ok(ElementsOf(elems))

\* C7, amended: the string decoder never fails, returns one empty string for
\* "[]", and returns exactly the elements of a well-formed list text whose
\* elements hold no comma and no quote, provided no bare first element begins
\* and no bare last element ends with a bracket next to the list's bracket.
C7_SimpleListsDecode ==
    /\ strings # Pending => strings.ok
    /\ (strings # Pending /\ raw = <<"[", "]">>) => strings.val = << <<>> >>
    /\ (/\ elems # <<>> /\ strings # Pending
        /\ \A k \in 1..Len(elems) : SimpleElem(elems[k])
        /\ ~BareBracketAtEnd(elems))
           => strings = Ok(ElementsOf(elems))

C7_Witness ==
    /\ Len(elems) = 2
    /\ elems[1] = [e |-> <<"a", " ", "a">>, q |-> <<"'">>, l |-> <<>>, r |-> <<>>]
    /\ elems[2] = [e |-> <<"[", "a">>, q |-> <<"\"">>, l |-> <<" ">>, r |-> <<" ">>]
    /\ strings = Ok(<< <<"a", " ", "a">>, <<"[", "a">> >>)

\* C8: the number decoder fails exactly when some trimmed part between the
\* commas of the bracket-stripped field is no number, and otherwise returns
\* the number of each part, in order.
C8_NumbersAllOrError ==
    floats # Pending =>
        LET body == Inner(raw, Brackets)
            num(k) == parse_f32(Inner(PartAt(body, k), Whitespace))
        IN  /\ floats.ok <=> \A k \in 1..NumParts(body) : num(k).ok
            /\ floats.ok => /\ Len(floats.val) = NumParts(body)
                            /\ \A k \in 1..NumParts(body) : floats.val[k] = num(k).val

C8_Witness ==
    /\ raw = <<"1", ",", "x", ",", "0">>
    /\ floats = Err("failed to parse float")

\* C9 as stated: at most one bracket is removed at each end of the field and
\* at most one quote at each end of each part.
C9_StripsOne ==
    strings # Pending => strings = Ok(StringsOf(raw, OneOff))

\* C9, amended: every leading and trailing bracket of the field is removed,
\* and, from each whitespace-trimmed part, every leading and trailing quote:
\* no returned string begins or ends with a quote character.
C9_StripsAll ==
    strings # Pending =>
        /\ strings = Ok(StringsOf(raw, Inner))
        /\ \A k \in 1..Len(strings.val) :
              ~StartsWith(strings.val[k], Quotes) /\ ~EndsWith(strings.val[k], Quotes)

C9_Witness ==
    /\ raw = <<"[", "[", "'", "'", "a">>
    /\ strings = Ok(<< <<"a">> >>)

(***************************************************************************)
(* Properties of the loader.                                               *)
(***************************************************************************)
LastCall == log[Len(log)]
NamesOf(l) == {l[i] : i \in 1..Len(l)}
NumCalls(op, id) ==
    Cardinality({k \in 1..Len(log) : log[k].op = op /\ log[k].id = id})

\* in s, every name of l has one Ingredient node, and every Recipe node with
\* the id has one CONTAINS edge to it
AttachedOnce(s, id, l) ==
    \A name \in NamesOf(l) :
        /\ Cardinality(IngredientsNamed(s, name)) = 1
        /\ \A r \in RecipesWithId(s, id) : \A i \in IngredientsNamed(s, name) :
              CopiesIn(<<r, i>>, s.edges) = 1

\* what C1 asks of one step
AttachStepIdempotent ==
    (/\ pc = "B_commit" /\ pc' = "idle"
     /\ Cardinality(RecipesWithId(db, call.recipe_id)) = 1)
    => /\ AttachedOnce(db', call.recipe_id, call.ingredients)
       /\ (Len(log) > 0 /\ LastCall = CallOfB(call)) => db' = db

\* C1: with one Recipe node of the id in the store, a committed
\* add_ingredients_to_recipe leaves one Ingredient node per name and one edge
\* to each, and a call repeating the previous one changes nothing.
C1_AttachIdempotent == [][AttachStepIdempotent]_vars

C1_Witness ==
    /\ pc = "idle" /\ Len(log) = 3
    /\ log[1].op = "add_recipe_to_neo4j"
    /\ log[2] = CallOfB([recipe_id |-> log[1].id, ingredients |-> <<Salt, Pepper>>])
    /\ log[3] = log[2]
    /\ db.ingredients = <<Salt, Pepper>>
    /\ db.edges = SetToBag({<<1, 1>>, <<1, 2>>})

\* what C2 asks of one step
AttachStepAllOrNothing ==
    pc \in BPhase =>
      /\ db' # db => /\ pc = "B_commit" /\ pc' # "aborted"
                     /\ j = Len(call.ingredients) + 1
                     /\ db' = tx
      /\ pc' = "aborted" => db' = db

\* C2: while add_ingredients_to_recipe runs, the committed store changes only
\* by its one commit, taken after the last ingredient and installing the
\* whole transaction; a failing step leaves the committed store as it was.
C2_AttachAllOrNothing == [][AttachStepAllOrNothing]_vars

C2_Witness ==
    /\ pc = "aborted" /\ err.at = "B_commit"
    /\ call.ingredients = <<Salt, Pepper>>
    /\ RecipesWithId(db, call.recipe_id) # {}
    /\ db.ingredients = <<>> /\ db.edges = EmptyBag

\* C3: the driver never reads past a row that does not decode, and at such a
\* row it is aborted with no transaction started for the row.
C3_BadRowAborts ==
    \A i \in 1..Len(file) :
        ~DecodeRow(file[i]).ok =>
            /\ row <= i
            /\ row = i => /\ pc = "aborted" /\ err.at = "read"
                          /\ open = 0 /\ tx = NoTx
                          /\ Len(log) = 2 * (i - 1)
                          /\ Len(db.recipes) = i - 1

C3_Witness ==
    /\ pc = "aborted" /\ err.kind = "MalformedRow"
    /\ Len(file) = 3 /\ row = 2
    /\ file[2].id = <<"x">>
    /\ Len(db.recipes) = 1 /\ BagCardinality(db.edges) > 0

\* in s, row i of the file is loaded as Recipe node i with its edges
RowLoaded(s, i) ==
    LET rec == DecodeRow(file[i]).val
    IN  /\ i <= Len(s.recipes)
        /\ s.recipes[i] = RecipeNode(rec)
        /\ \A name \in NamesOf(rec.ingredients) :
              \E n \in IngredientsNamed(s, name) : BagIn(<<i, n>>, s.edges)

\* what C4 asks of one step
AbortStepKeepsRows ==
    /\ pc # "aborted"
    /\ (pc' = "aborted" /\ err'.kind = "StoreError")
          => /\ db' = db
             /\ row' = row
             /\ \A i \in 1..(row - 1) : RowLoaded(db', i)

\* C4: a store failure ends the run (no step follows an abort) and leaves
\* the committed store as it was, with every earlier row's nodes and edges.
C4_CommittedRowsStay == [][AbortStepKeepsRows]_vars

C4_Witness ==
    /\ pc = "aborted" /\ err.kind = "StoreError" /\ err.at = "B_merge_edge"
    /\ Len(file) = 3 /\ row = 2
    /\ Len(db.recipes) = 2
    /\ RowLoaded(db, 1) /\ BagCardinality(db.edges) = Len(DecodeRow(file[1]).val.ingredients)

\* C5: the store holds as many Recipe nodes of an id as add_recipe_to_neo4j
\* calls with that id have committed.
C5_CreateIsUnconditional ==
    /\ \A id \in RecipeIds :
          Cardinality(RecipesWithId(db, id)) = NumCalls("add_recipe_to_neo4j", id)
    /\ Len(db.recipes) = Cardinality({k \in 1..Len(log) : log[k].op = "add_recipe_to_neo4j"})

C5_Witness ==
    /\ pc = "idle" /\ Len(log) = 3
    /\ \A k \in 1..3 : log[k] = log[1]
    /\ Len(db.recipes) = 3
    /\ db.recipes[1] = db.recipes[2] /\ db.recipes[2] = db.recipes[3]

\* the call that commits k-th in a run of the driver
ExpectedCall(k) ==
    LET rec == DecodeRow(file[(k + 1) \div 2]).val
    IN  IF k % 2 = 1 THEN CallOfA(rec)
        ELSE CallOfB([recipe_id |-> rec.id, ingredients |-> rec.ingredients])

\* C6: at most one transaction is open, only inside an operation; commits
\* happen in the order A(row 1), B(row 1), A(row 2), ...; B of a row starts
\* only after A of that row committed, and a row is read only after B of
\* the row before committed.
C6_StrictlySequential ==
    /\ open <= 1
    /\ open = 1 <=> pc \in InTxn
    /\ \A k \in 1..Len(log) : log[k] = ExpectedCall(k)
    /\ pc \in {"read", "done"} => Len(log) = 2 * row
    /\ pc \in APhase => Len(log) = 2 * (row - 1)
    /\ pc \in BPhase \cup {"call_B"} => Len(log) = 2 * row - 1

C6_Witness ==
    /\ pc = "B_start_txn" /\ row = 2
    /\ Len(log) = 3 /\ open = 0
    /\ Len(db.recipes) = 2

\* what C10 asks of one step
AttachStepEdgePerRecipe ==
    (pc = "B_commit" /\ pc' = "idle") =>
      /\ \A name \in NamesOf(call.ingredients) :
            /\ Cardinality(IngredientsNamed(db', name)) = 1
            /\ \A i \in IngredientsNamed(db', name) :
                  /\ \A r \in RecipesWithId(db', call.recipe_id) :
                        CopiesIn(<<r, i>>, db'.edges) = 1
                  /\ Cardinality({p \in BagToSet(db'.edges) :
                                     p[2] = i /\ p[1] \in RecipesWithId(db', call.recipe_id)})
                        = Cardinality(RecipesWithId(db', call.recipe_id))
      /\ RecipesWithId(db, call.recipe_id) = {} => db'.edges = db.edges

\* C10: a committed add_ingredients_to_recipe(id, L) leaves one Ingredient
\* node per name of L and one CONTAINS edge to it from every Recipe node of
\* the id, however many there are; with no such Recipe node it adds no edge.
C10_EdgePerMatchedRecipe == [][AttachStepEdgePerRecipe]_vars

C10_Witness ==
    /\ pc = "idle" /\ Len(log) = 3
    /\ LastCall.op = "add_ingredients_to_recipe"
    /\ LastCall.ingredients = <<Salt, Pepper>>
    /\ RecipesWithId(db, LastCall.id) = {1, 2}
    /\ db.edges = SetToBag({<<1, 1>>, <<1, 2>>, <<2, 1>>, <<2, 2>>})

====
